---- MODULE Spec2Model ----
(***************************************************************************)
(* The MT5 bridge (src/mt5_bridge.py): a session registry in front of the  *)
(* MetaTrader 5 terminal connector.  Every HTTP handler is one action.  A  *)
(* handler is an "async def" without any await, so it runs to completion   *)
(* on the event loop; the connector calls it makes are recorded, in order, *)
(* in the variable calls, and the answer it returns in resp.               *)
(*                                                                         *)
(* The terminal is the environment: every connector call either raises,    *)
(* returns None (or False), or returns a value, chosen by \E.              *)
(*                                                                         *)
(* The calendar ingest script (src/scripts/ingest_economic_calendar.py) is *)
(* a second process, with its own variables and specification, IngestSpec. *)
(***************************************************************************)
EXTENDS Integers, Sequences, FiniteSets, TLC

VARIABLES
    sessions,     \* the dict sessions: session id -> record
    now,          \* the wall clock, in epoch seconds
    mt5_account,  \* the account the terminal is logged in to (0: none)
    req,          \* the request served last
    resp,         \* what its handler returned (or the exception it let through)
    calls,        \* the connector calls made while serving it, in order
    issued,       \* history: the session ids returned by successful connects
    \* The calendar ingest script (src/scripts/ingest_economic_calendar.py):
    pc,               \* where the script is: "off", "load", "auth", "loop", "exited"
    environ,          \* whether SUPABASE_URL / SUPABASE_ANON_KEY are set, and a user is signed in
    stdin,            \* the lines of standard input
    line_num,         \* the number of lines read so far
    processed_count,
    inserted_count,
    error_count,
    inserts,          \* the rows handed to the datastore, in order, with the outcome
    exit_code         \* the exit status of the process (None while it runs)

bridgeVars == <<sessions, now, mt5_account, req, resp, calls, issued>>

ingestVars == <<pc, environ, stdin, line_num, processed_count, inserted_count, error_count,
                inserts, exit_code>>

vars == <<sessions, now, mt5_account, req, resp, calls, issued,
          pc, environ, stdin, line_num, processed_count, inserted_count, error_count,
          inserts, exit_code>>

---------------------------------------------------------------------------
(* Bounds of the model. *)

MaxTime == 1

\* The registry never shrinks: connects are served while it has fewer entries.
MaxSessions == 2

Logins == {1, 2}

Servers == {"Exness-MT5Live"}

---------------------------------------------------------------------------
(* Optional values: None is the empty tuple, a present value v is <<v>>.   *)

None == <<>>

Some(v) == <<v>>

\* Python truthiness of an Optional[float] / Optional[int]: None and 0 are falsy.
Truthy(opt) == opt # None /\ opt[1] # 0

\* The Python expression (opt or default) for an optional number.
PyOr(opt, default) == IF Truthy(opt) THEN opt[1] ELSE default

---------------------------------------------------------------------------
(* Strings that are built by formatting are sequences of characters.       *)

Digit(d) ==
    CASE d = 0 -> "0" [] d = 1 -> "1" [] d = 2 -> "2" [] d = 3 -> "3"
      [] d = 4 -> "4" [] d = 5 -> "5" [] d = 6 -> "6" [] d = 7 -> "7"
      [] d = 8 -> "8" [] d = 9 -> "9"

RECURSIVE IntToStr(_)
\* str(n) for a natural number n.
IntToStr(n) == IF n < 10 THEN <<Digit(n)>> ELSE IntToStr(n \div 10) \o <<Digit(n % 10)>>

\* needle in haystack, for character sequences.
Contains(haystack, needle) ==
    \E i \in 0..(Len(haystack) - Len(needle)) :
        SubSeq(haystack, i + 1, i + Len(needle)) = needle

\* f"mt5_{int(time.time())}_{credentials.login}"
SessionIdNoLogin(t, login) == <<"m", "t", "5", "_">> \o IntToStr(t)

SessionId(t, login) == <<"m", "t", "5", "_">> \o IntToStr(t) \o <<"_">> \o IntToStr(login)

\* datetime.now().isoformat(): the instant, tagged as an ISO string.
IsoFormat(t) == <<"iso", t>>

\* A well-formed session id that no connect of the model ever returns.
UnknownId == SessionId(0, 9)

---------------------------------------------------------------------------
(* Responses.  error is a record: the fixed text and the formatted detail. *)

Failure(text, detail) ==
    [success |-> FALSE, error |-> [text |-> text, detail |-> detail]]

SuccessAndError(data) == [success |-> TRUE, data |-> data, error |-> [text |-> "", detail |-> <<>>]]

Success(data) == [success |-> TRUE, data |-> data]

CaughtNot(text) == [exception |-> TRUE]

\* The "except Exception as e" branch of a handler.
Caught(text) == Failure(text, <<"exception">>)

\* An exception that leaves the handler: the transport layer answers, not the handler.
Propagated == [exception |-> TRUE]

InvalidSession == Failure("Invalid session ID", <<>>)

\* One connector call: the function, its arguments, how it ended ("raise", or the
\* kind of value returned) and what it returned (0 where the model keeps nothing).
Call(fn, args, kind, ret) == [fn |-> fn, args |-> args, kind |-> kind, ret |-> ret]

\* The calls of the trace tr to the connector function fn.
CallsTo(tr, fn) == SelectSeq(tr, LAMBDA c : c.fn = fn)

Raised(tr) == \E i \in 1..Len(tr) : tr[i].kind = "raise"

---------------------------------------------------------------------------
(* The session registry. *)

SessionCheckAbsent(sid) == TRUE

\* "request.session_id not in sessions" is False
SessionCheck(sid) == sid \in DOMAIN sessions

\* sessions[sid] does not raise KeyError
HasKey(sid) == sid \in DOMAIN sessions

TouchNothing(sid) == sessions

TouchAll(sid) == [s \in DOMAIN sessions |-> [sessions[s] EXCEPT !.last_activity = IsoFormat(now)]]

\* sessions[sid]["last_activity"] = datetime.now().isoformat()
Touch(sid) == [sessions EXCEPT ![sid].last_activity = IsoFormat(now)]

\* sessions[session_id] = {...}
Register(sid, login, server) ==
    [s \in DOMAIN sessions \cup {sid} |->
        IF s = sid
        THEN [login |-> login, server |-> server,
              connected_at |-> IsoFormat(now), last_activity |-> IsoFormat(now)]
        ELSE sessions[s]]

\* No request is being served: the last response has been sent.
Idle == req.cmd = "none"

\* The end of a handler that leaves the terminal as it is.
Done(r, rsp, tr, sess) ==
    /\ req' = r
    /\ resp' = rsp
    /\ calls' = tr
    /\ sessions' = sess
    /\ UNCHANGED <<now, mt5_account, issued>>
    /\ UNCHANGED ingestVars

\* The bridge process after start-up.
BridgeInit ==
    /\ sessions = << >>
    /\ now = 0
    /\ mt5_account = 0
    /\ req = [cmd |-> "none"]
    /\ resp = [none |-> TRUE]
    /\ calls = << >>
    /\ issued = {}

\* The ingest script is not running.
IngestOff ==
    /\ pc = "off"
    /\ environ = [configured |-> FALSE, authenticated |-> FALSE]
    /\ stdin = << >>
    /\ line_num = 0
    /\ processed_count = 0
    /\ inserted_count = 0
    /\ error_count = 0
    /\ inserts = << >>
    /\ exit_code = None

Init == BridgeInit /\ IngestOff

\* Time passes between requests.
Tick ==
    /\ Idle
    /\ now < MaxTime
    /\ now' = now + 1
    /\ UNCHANGED <<sessions, mt5_account, req, resp, calls, issued>>
    /\ UNCHANGED ingestVars

---------------------------------------------------------------------------
(* POST /mt5/connect *)

NumPaths == 5

\* The paths at which the initialize loop of the model ends early.
InitTries == {1, 2}

\* How the loop "for path in paths_to_try: if mt5.initialize(path)" ends: the call
\* number `at` returns True ("ok") or raises, or all NumPaths calls return False.
InitOutcomes ==
    [kind : {"ok", "raise"}, at : InitTries] \cup {[kind |-> "fail", at |-> NumPaths]}

\* The initialize calls of the loop, given how it ends.
InitTrace(o) ==
    [i \in 1..o.at |->
        Call("initialize", <<i>>, IF i < o.at \/ o.kind = "fail" THEN "false" ELSE o.kind, 0)]

\* "LIVE" if "live" in credentials.server.lower() else "DEMO"
Mode(server) == IF server = "Exness-MT5Live" THEN "LIVE" ELSE "DEMO"

\* What a failed login leaves of the terminal's account: the terminal decides.
AfterFailedLogin == {mt5_account, 0}

ConnectEndAlwaysRegisters(r, rsp, tr, sess, acct, iss) ==
    /\ req' = r
    /\ resp' = rsp
    /\ calls' = tr
    /\ sessions' = Register(SessionId(now, r.login), r.login, r.server)
    /\ mt5_account' = acct
    /\ issued' = iss
    /\ UNCHANGED now
    /\ UNCHANGED ingestVars

ConnectEnd(r, rsp, tr, sess, acct, iss) ==
    /\ req' = r
    /\ resp' = rsp
    /\ calls' = tr
    /\ sessions' = sess
    /\ mt5_account' = acct
    /\ issued' = iss
    /\ UNCHANGED now
    /\ UNCHANGED ingestVars

connect_to_mt5(credentials) ==
    LET r == [cmd |-> "connect", login |-> credentials.login, server |-> credentials.server]
        fail(rsp, tr, acct) == ConnectEnd(r, rsp, tr, sessions, acct, issued)
        exc(tr, acct) == fail(Caught("Connection failed"), tr, acct)
    IN
    \E o \in InitOutcomes :
      LET t0 == InitTrace(o) IN
      IF o.kind = "raise" THEN exc(t0, mt5_account)
      ELSE IF o.kind = "fail"
      THEN fail(Failure("Failed to initialize MT5", <<>>), t0, mt5_account)
      ELSE
      \E ti \in {"raise", "none", "value"} :
        LET t1 == Append(t0, Call("terminal_info", <<>>, ti, 0)) IN
        IF ti = "raise" THEN exc(t1, mt5_account)
        ELSE
        \E lg \in {"raise", "false", "true"} :
          LET t2 == Append(t1, Call("login", <<credentials.login, credentials.server>>, lg, 0)) IN
          IF lg = "raise" THEN \E a \in AfterFailedLogin : exc(t2, a)
          ELSE IF lg = "false"
          THEN \E le \in {"raise", "value"}, a \in AfterFailedLogin :
                 LET t3 == Append(t2, Call("last_error", <<>>, le, 0)) IN
                 IF le = "raise" THEN exc(t3, a)
                 ELSE fail(Failure("Login failed", <<"last_error">>), t3, a)
          ELSE
          \E ai \in {"raise", "none", "value"} :
            LET t3 == Append(t2, Call("account_info", <<>>, ai, 0))
                session_id == SessionId(now, credentials.login)
            IN
            IF ai = "raise" THEN exc(t3, credentials.login)
            ELSE IF ai = "none"
            THEN fail(Failure("Failed to get account information", <<>>), t3, credentials.login)
            ELSE ConnectEnd(r,
                     [success |-> TRUE,
                      session_id |-> session_id,
                      account_info |-> [login |-> credentials.login,
                                        connected |-> TRUE,
                                        mode |-> Mode(credentials.server)]],
                     t3,
                     Register(session_id, credentials.login, credentials.server),
                     credentials.login,
                     issued \cup {session_id})

Credentials == [login : Logins, server : Servers]

Connect ==
    /\ Idle
    /\ Cardinality(DOMAIN sessions) < MaxSessions
    /\ \E credentials \in Credentials : connect_to_mt5(credentials)

---------------------------------------------------------------------------
(* The session ids a client may send: every registered one and an unknown one. *)

SessionIds == DOMAIN sessions \cup {UnknownId}

---------------------------------------------------------------------------
(* POST /mt5/account_info *)

\* What account_info() can answer: nothing when no account is logged in.
AccountInfoResults == IF mt5_account = 0 THEN {"raise", "none"} ELSE {"raise", "none", "value"}

\* The number of open positions (and of pending orders) the terminal may report.
MaxPositions == 1

get_account_info(request) ==
    LET r == [cmd |-> "account_info", session_id |-> request.session_id]
        exc(tr, s) == Done(r, Caught("Failed to get account info"), tr, s)
    IN
    IF ~SessionCheck(request.session_id) THEN Done(r, InvalidSession, << >>, sessions)
    ELSE IF ~HasKey(request.session_id) THEN exc(<< >>, sessions)    \* KeyError of sessions[...]
    ELSE
    LET s1 == Touch(request.session_id) IN
    \E ai \in AccountInfoResults :
      LET t1 == <<Call("account_info", <<>>, ai, 0)>> IN
      IF ai = "raise" THEN exc(t1, s1)
      ELSE IF ai = "none"
      THEN Done(r, Failure("Failed to get account information", <<>>), t1, s1)
      ELSE
      \E pk \in {"raise", "none", "value"}, pn \in 0..MaxPositions :
        (pk = "value" \/ pn = 0) /\
        LET t2 == Append(t1, Call("positions_get", <<>>, pk, pn)) IN
        IF pk = "raise" THEN exc(t2, s1)
        ELSE
        \E ok \in {"raise", "none", "value"}, on \in 0..MaxPositions :
          (ok = "value" \/ on = 0) /\
          LET t3 == Append(t2, Call("orders_get", <<>>, ok, on)) IN
          IF ok = "raise" THEN exc(t3, s1)
          ELSE Done(r,
                    Success([login |-> mt5_account, connected |-> TRUE,
                             positions |-> pn, orders |-> on, mode |-> "LIVE"]),
                    t3, s1)

AccountInfo == Idle /\ \E sid \in SessionIds : get_account_info([session_id |-> sid])

---------------------------------------------------------------------------
(* Symbols and quotes. *)

EURUSD == <<"E", "U", "R", "U", "S", "D">>

XAUUSD == <<"X", "A", "U", "U", "S", "D">>

\* request.symbol.startswith('XAU')
StartsWithXAU(symbol) == Len(symbol) >= 3 /\ SubSeq(symbol, 1, 3) = <<"X", "A", "U">>

\* The ticks symbol_info_tick may return (prices in points).
Ticks == {[bid |-> 10, ask |-> 11], [bid |-> 20, ask |-> 22]}

\* symbol_info_tick: raises, returns None, or returns a tick.
TickOutcomes ==
    {[kind |-> "raise", tick |-> 0], [kind |-> "none", tick |-> 0]}
    \cup {[kind |-> "value", tick |-> t] : t \in Ticks}

---------------------------------------------------------------------------
(* POST /mt5/symbol_price *)

get_symbol_price(request) ==
    LET r == [cmd |-> "symbol_price", session_id |-> request.session_id,
              symbol |-> request.symbol]
        exc(tr, s) == Done(r, Caught("Failed to get symbol price"), tr, s)
    IN
    IF ~SessionCheck(request.session_id) THEN Done(r, InvalidSession, << >>, sessions)
    ELSE IF ~HasKey(request.session_id) THEN exc(<< >>, sessions)    \* KeyError of sessions[...]
    ELSE
    LET s1 == Touch(request.session_id) IN
    \E si \in {"raise", "none", "visible", "hidden"} :
      LET t1 == <<Call("symbol_info", <<request.symbol>>, si, 0)>> IN
      IF si = "raise" THEN exc(t1, s1)
      ELSE IF si = "none" THEN Done(r, Failure("Symbol not found", <<request.symbol>>), t1, s1)
      ELSE
      \E ss \in (IF si = "hidden" THEN {"raise", "value"} ELSE {"skip"}) :
        LET t2 == IF ss = "skip" THEN t1
                  ELSE Append(t1, Call("symbol_select", <<request.symbol>>, ss, 0)) IN
        IF ss = "raise" THEN exc(t2, s1)
        ELSE
        \E tk \in TickOutcomes :
          LET t3 == Append(t2, Call("symbol_info_tick", <<request.symbol>>,
                                    tk.kind, tk.tick)) IN
          IF tk.kind = "raise" THEN exc(t3, s1)
          ELSE IF tk.kind = "none"
          THEN Done(r, Failure("Failed to get current price", <<request.symbol>>), t3, s1)
          ELSE Done(r, Success([symbol |-> request.symbol, bid |-> tk.tick.bid, ask |-> tk.tick.ask,
                                time |-> IsoFormat(now)]), t3, s1)

SymbolPrice ==
    /\ Idle
    /\ \E sid \in SessionIds : get_symbol_price([session_id |-> sid, symbol |-> EURUSD])

---------------------------------------------------------------------------
(* Orders. *)

ORDER_TYPE_BUY == 0

ORDER_TYPE_SELL == 1

POSITION_TYPE_BUY == 0

TRADE_RETCODE_REQUOTE == 10004

TRADE_RETCODE_REJECT == 10006

TRADE_RETCODE_DONE == 10009

TRADE_RETCODE_PRICE_CHANGED == 10020

Retcodes ==
    {TRADE_RETCODE_DONE, TRADE_RETCODE_REQUOTE, TRADE_RETCODE_PRICE_CHANGED,
     TRADE_RETCODE_REJECT}

\* The comment the terminal puts in a result with the given code.
CommentOf(retcode) ==
    CASE retcode = TRADE_RETCODE_DONE -> "Request completed"
      [] retcode = TRADE_RETCODE_REQUOTE -> "Requote"
      [] retcode = TRADE_RETCODE_PRICE_CHANGED -> "Prices changed"
      [] retcode = TRADE_RETCODE_REJECT -> "Request rejected"

\* The result objects order_send may return for a request at the given price.
OrderResults(price) ==
    {[retcode |-> c, comment |-> CommentOf(c), order |-> 7, price |-> price] :
        c \in Retcodes}

\* order_send: raises, returns None, or returns a result object.
OrderSendOutcomes(price) ==
    {[kind |-> "raise", result |-> 0], [kind |-> "none", result |-> 0]}
    \cup {[kind |-> "value", result |-> res] : res \in OrderResults(price)}

OrderAcceptedOrRejected(result) ==
    result.retcode \in {TRADE_RETCODE_DONE, TRADE_RETCODE_REJECT}

\* "result.retcode != mt5.TRADE_RETCODE_DONE" is False
OrderAccepted(result) == result.retcode = TRADE_RETCODE_DONE

---------------------------------------------------------------------------
(* POST /mt5/place_order *)

ResolvePriceSwapped(order, tick) ==
    IF order.type = 0 THEN PyOr(order.price, tick.bid) ELSE PyOr(order.price, tick.ask)

\* price = order.price or tick.ask   /   price = order.price or tick.bid
ResolvePrice(order, tick) ==
    IF order.type = 0 THEN PyOr(order.price, tick.ask) ELSE PyOr(order.price, tick.bid)

\* order_type = mt5.ORDER_TYPE_BUY if order.type == 0 else mt5.ORDER_TYPE_SELL
ResolveType(order) == IF order.type = 0 THEN ORDER_TYPE_BUY ELSE ORDER_TYPE_SELL

\* request_dict of place_order (the fields that vary).
OrderRequestDict(order, tick) ==
    [symbol |-> order.symbol, volume |-> order.volume, type |-> ResolveType(order),
     price |-> ResolvePrice(order, tick), sl |-> PyOr(order.sl, 0), tp |-> PyOr(order.tp, 0)]

place_order(order) ==
    LET r == [cmd |-> "place_order"] @@ order
        exc(tr, s) == Done(r, Caught("Failed to place order"), tr, s)
    IN
    IF ~SessionCheck(order.session_id) THEN Done(r, InvalidSession, << >>, sessions)
    ELSE IF ~HasKey(order.session_id) THEN exc(<< >>, sessions)    \* KeyError of sessions[...]
    ELSE
    LET s1 == Touch(order.session_id) IN
    \E ti \in {"raise", "none", "disconnected", "connected"} :
      LET t1 == <<Call("terminal_info", <<>>, ti, 0)>> IN
      IF ti = "raise" THEN exc(t1, s1)
      ELSE IF ti = "none" THEN Done(r, Failure("MT5 terminal not connected", <<>>), t1, s1)
      ELSE IF ti = "disconnected"
      THEN Done(r, Failure("MT5 not connected to broker", <<>>), t1, s1)
      ELSE
      \E si \in {"raise", "none", "value"} :
        LET t2 == Append(t1, Call("symbol_info", <<order.symbol>>, si, 0)) IN
        IF si = "raise" THEN exc(t2, s1)
        ELSE IF si = "none" THEN Done(r, Failure("Symbol not found", <<order.symbol>>), t2, s1)
        ELSE
        \E tk \in TickOutcomes :
          LET t3 == Append(t2, Call("symbol_info_tick", <<order.symbol>>,
                                    tk.kind, tk.tick)) IN
          IF tk.kind = "raise" THEN exc(t3, s1)
          ELSE IF tk.kind = "none"
          THEN Done(r, Failure("Failed to get current price", <<order.symbol>>), t3, s1)
          ELSE
          LET request_dict == OrderRequestDict(order, tk.tick) IN
          \E os \in OrderSendOutcomes(request_dict.price) :
            LET t4 == Append(t3, Call("order_send", <<request_dict>>, os.kind, os.result)) IN
            IF os.kind = "raise" THEN exc(t4, s1)
            ELSE IF os.kind = "none"
            THEN \E le \in {"raise", "value"} :
                   LET t5 == Append(t4, Call("last_error", <<>>, le, 0)) IN
                   IF le = "raise" THEN exc(t5, s1)
                   ELSE Done(r, Failure("Order send failed", <<"last_error">>), t5, s1)
            ELSE IF ~OrderAccepted(os.result)
            THEN Done(r, Failure("Order failed", <<os.result.comment>>), t4, s1)
            ELSE Done(r, Success([ticket |-> os.result.order, symbol |-> order.symbol,
                                  type |-> order.type, volume |-> order.volume,
                                  price |-> os.result.price,
                                  sl |-> PyOr(order.sl, 0), tp |-> PyOr(order.tp, 0),
                                  time |-> IsoFormat(now), mode |-> "LIVE"]), t4, s1)

\* The prices a caller may put in an order: none, zero, or a limit of its own.
OrderPrices == {None, Some(0), Some(12)}

OrderRequests ==
    {[session_id |-> sid, symbol |-> EURUSD, type |-> ty, volume |-> 1,
      price |-> p, sl |-> None, tp |-> None] :
        sid \in SessionIds, ty \in {0, 1}, p \in OrderPrices}

PlaceOrder == Idle /\ \E order \in OrderRequests : place_order(order)

---------------------------------------------------------------------------
(* POST /mt5/close_position *)

\* The tickets a caller may ask to close.
Tickets == {7, 8}

\* What positions_get(ticket=...) may find: the position, of either type.
PositionsOf(ticket) ==
    {[ticket |-> ticket, symbol |-> EURUSD, volume |-> 1, type |-> ty] : ty \in {0, 1}}

\* request_dict of close_position (the fields that vary).
CloseRequestDict(pos, tick) ==
    [symbol |-> pos.symbol, volume |-> pos.volume,
     type |-> IF pos.type = POSITION_TYPE_BUY THEN ORDER_TYPE_SELL ELSE ORDER_TYPE_BUY,
     position |-> pos.ticket,
     price |-> IF pos.type = POSITION_TYPE_BUY THEN tick.bid ELSE tick.ask]

NoPositionsNoneOnly(pg) == pg.kind = "none"

\* "if not positions": None and the empty tuple alike.

NoPositions(pg) == pg.kind = "none" \/ (pg.kind = "value" /\ pg.n = 0)

close_position(request) ==
    LET r == [cmd |-> "close_position", session_id |-> request.session_id,
              ticket |-> request.ticket]
        exc(tr, s) == Done(r, Caught("Failed to close position"), tr, s)
    IN
    IF ~SessionCheck(request.session_id) THEN Done(r, InvalidSession, << >>, sessions)
    ELSE IF ~HasKey(request.session_id) THEN exc(<< >>, sessions)    \* KeyError of sessions[...]
    ELSE
    LET s1 == Touch(request.session_id)
        PositionsOutcomes ==
            {[kind |-> "raise", n |-> 0], [kind |-> "none", n |-> 0],
             [kind |-> "value", n |-> 0]}
            \cup {[kind |-> "value", n |-> 1, pos |-> p] : p \in PositionsOf(request.ticket)}
    IN
    \E pg \in PositionsOutcomes :
      LET t1 == <<Call("positions_get", <<request.ticket>>, pg.kind, pg.n)>> IN
      IF pg.kind = "raise" THEN exc(t1, s1)
      ELSE IF NoPositions(pg)
      THEN Done(r, Failure("Position not found", <<request.ticket>>), t1, s1)
      ELSE
      IF pg.n = 0 THEN exc(t1, s1)    \* positions[0] of an empty tuple: IndexError
      ELSE
      LET pos == pg.pos IN
      \E tk \in TickOutcomes :
        LET t2 == Append(t1, Call("symbol_info_tick", <<pos.symbol>>,
                                  tk.kind, tk.tick)) IN
        IF tk.kind = "raise" THEN exc(t2, s1)
        ELSE IF tk.kind = "none"
        THEN Done(r, Failure("Failed to get current price", <<pos.symbol>>), t2, s1)
        ELSE
        LET request_dict == CloseRequestDict(pos, tk.tick) IN
        \E os \in OrderSendOutcomes(request_dict.price) :
          LET t3 == Append(t2, Call("order_send", <<request_dict>>, os.kind, os.result)) IN
          IF os.kind = "raise" THEN exc(t3, s1)
          ELSE IF os.kind = "none"
          THEN \E le \in {"raise", "value"} :
                 LET t4 == Append(t3, Call("last_error", <<>>, le, 0)) IN
                 IF le = "raise" THEN exc(t4, s1)
                 ELSE Done(r, Failure("Close order send failed", <<"last_error">>), t4, s1)
          ELSE IF ~OrderAccepted(os.result)
          THEN Done(r, Failure("Close failed", <<os.result.comment>>), t3, s1)
          ELSE Done(r, Success([ticket |-> pos.ticket, closed |-> TRUE,
                                price |-> os.result.price, time |-> IsoFormat(now)]), t3, s1)

ClosePosition ==
    /\ Idle
    /\ \E sid \in SessionIds, ticket \in Tickets :
          close_position([session_id |-> sid, ticket |-> ticket])

---------------------------------------------------------------------------
(* POST /mt5/historical_data *)

TIMEFRAME_H1 == 16385

TIMEFRAME_H4 == 16388

TIMEFRAME_D1 == 16408

\* timeframe_mapping.get(request.timeframe, request.timeframe)
TimeframeMapping(timeframe) ==
    CASE timeframe = 60 -> TIMEFRAME_H1
      [] timeframe = 240 -> TIMEFRAME_H4
      [] timeframe = 1440 -> TIMEFRAME_D1
      [] OTHER -> timeframe    \* 1, 5, 15, 30 are their own MT5 constants

SecondsPerDay == 86400

\* end - timedelta(days=days_back)
DaysBefore(end, days_back) == end - days_back * SecondsPerDay

\* The server time the terminal reports at the instant t.
ServerTimeAt(t) == t + 7200

\* Truthiness of an Optional[str]: None and "" are falsy.
TruthyStr(opt) == opt # None /\ opt[1] # << >>

\* datetime.fromisoformat(s) succeeds on the strings isoformat() writes.
IsIsoString(s) == Len(s) = 2 /\ s[1] = "iso"

\* datetime.fromisoformat(s).astimezone(utc): the instant the string names.
FromIsoFormat(s) == s[2]

\* One row of the array copy_rates_* returns:
\* (time, open, high, low, close, tick_volume, spread, real_volume).
RawBar(i) == <<60 * i, 100 + i, 103 + i, 99 + i, 101 + i, 5, 1, 0>>

\* The array of n rows.
Rates(n) == [i \in 1..n |-> RawBar(i)]

BarRecordNoSpread(bar) ==
    [time |-> bar[1], open |-> bar[2], high |-> bar[3], low |-> bar[4], close |-> bar[5],
     tick_volume |-> bar[6], real_volume |-> bar[8]]

\* {"time": int(bar[0]), "open": float(bar[1]), ..., "real_volume": int(bar[7])}
BarRecord(bar) ==
    [time |-> bar[1], open |-> bar[2], high |-> bar[3], low |-> bar[4], close |-> bar[5],
     tick_volume |-> bar[6], spread |-> bar[7], real_volume |-> bar[8]]

\* bars_data = [ {...} for bar in rates ]
BarsData(rates) == [i \in 1..Len(rates) |-> BarRecord(rates[i])]

\* A result of copy_rates_range / copy_rates_from_pos: "raise", "none" (None), or
\* "value" with an array of n rows (n = 0: the empty array).
RatesResult(kind, n) == [kind |-> kind, n |-> n]

\* "rates is not None and len(rates) > 0"
NonEmpty(res) == res.kind = "value" /\ res.n > 0

\* The terminal's answer to copy_rates_range, by the behaviour rng of the connector.
FetchRange(stub) ==
    CASE stub.rng = "raise" -> RatesResult("raise", 0)
      [] stub.rng = "none" -> RatesResult("none", 0)
      [] OTHER -> RatesResult("value", stub.rng_n)

\* The terminal's answer to copy_rates_from_pos(symbol, timeframe, 0, count), by the
\* behaviour pos of the connector: "max" serves requests of up to pos_n bars and
\* answers None ("Invalid params") to larger ones, "fix" returns pos_n bars whatever
\* was asked.
FetchPos(stub, count) ==
    CASE stub.pos = "raise" -> RatesResult("raise", 0)
      [] stub.pos = "none" -> RatesResult("none", 0)
      [] stub.pos = "max" ->
            IF count <= stub.pos_n THEN RatesResult("value", count) ELSE RatesResult("none", 0)
      [] OTHER -> RatesResult("value", stub.pos_n)

RangeCall(symbol, timeframe, start, end, res) ==
    Call("copy_rates_range", <<symbol, timeframe, start, end>>, res.kind, res.n)

PosCall(symbol, timeframe, count, res) ==
    Call("copy_rates_from_pos", <<symbol, timeframe, 0, count>>, res.kind, res.n)

\* The outcome of a part of the handler: how it went on ("ok": rates fetched,
\* "failed": nothing fetched, "raise": an exception), the rows fetched, the calls.
Fetched(status, n, tr) == [status |-> status, n |-> n, tr |-> tr]

RECURSIVE CountLadder(_, _, _, _, _)
\* for count in count_options: rates = copy_rates_from_pos(...); break when non-empty,
\* else error = mt5.last_error(); rates = None
CountLadder(stub, symbol, timeframe, count_options, tr) ==
    IF count_options = << >> THEN Fetched("failed", 0, tr)
    ELSE
    LET count == Head(count_options)
        res == FetchPos(stub, count)
        t1 == Append(tr, PosCall(symbol, timeframe, count, res))
        t2 == Append(t1, Call("last_error", <<>>, stub.le, 0))
    IN
    IF res.kind = "raise" THEN Fetched("raise", 0, t1)
    ELSE IF NonEmpty(res) THEN Fetched("ok", res.n, t1)
    ELSE IF stub.le = "raise" THEN Fetched("raise", 0, t2)
    ELSE CountLadder(stub, symbol, timeframe, Tail(count_options), t2)

\* days_back of the higher-timeframe path.
DaysBackHigher(mt5_timeframe) ==
    IF mt5_timeframe = TIMEFRAME_H1 THEN 7
    ELSE IF mt5_timeframe = TIMEFRAME_H4 THEN 14
    ELSE 30

HigherCountsAscending == <<1, 2, 3, 5, 10>>

\* count_options of the higher-timeframe path.
HigherCounts == <<10, 5, 3, 2, 1>>

\* count_options of the XAU path.
XauCounts(timeframe) ==
    IF timeframe = 60 THEN <<5, 3, 2, 1>>
    ELSE IF timeframe = 240 THEN <<5, 3, 2, 1>>
    ELSE <<500, 200, 100, 50>>

\* The last step of a path that gave up: error = mt5.last_error(), then the message.
GiveUp(stub, tr, text) ==
    LET t1 == Append(tr, Call("last_error", <<>>, stub.le, 0)) IN
    IF stub.le = "raise" THEN [status |-> "raise", tr |-> t1]
    ELSE [status |-> "return", resp |-> Failure(text, <<"last_error">>), tr |-> t1]

\* Lines 503-539: range first, then the count ladder.
HigherPath(request, mt5_timeframe, end, stub, tr) ==
    LET start == DaysBefore(end, DaysBackHigher(mt5_timeframe))
        res == FetchRange(stub)
        t1 == Append(tr, RangeCall(request.symbol, mt5_timeframe, start, end, res))
        lad == CountLadder(stub, request.symbol, mt5_timeframe, HigherCounts, t1)
    IN
    IF res.kind = "raise" THEN [status |-> "raise", tr |-> t1]
    ELSE IF NonEmpty(res) THEN [status |-> "rates", res |-> res, tr |-> t1]
    ELSE IF lad.status = "raise" THEN [status |-> "raise", tr |-> lad.tr]
    ELSE IF lad.status = "ok"
    THEN [status |-> "rates", res |-> RatesResult("value", lad.n), tr |-> lad.tr]
    ELSE GiveUp(stub, lad.tr, "data not available for higher timeframes")

\* Lines 558-595: the count ladder first, then one range fetch.
XauPath(request, stub, tr) ==
    LET lad == CountLadder(stub, request.symbol, request.timeframe,
                           XauCounts(request.timeframe), tr)
        end == now
        days_back == IF request.timeframe >= 240 THEN 7 ELSE 3
        start == DaysBefore(end, days_back)
        res == FetchRange(stub)
        t1 == Append(lad.tr, RangeCall(request.symbol, request.timeframe, start, end, res))
    IN
    IF lad.status = "raise" THEN [status |-> "raise", tr |-> lad.tr]
    ELSE IF lad.status = "ok"
    THEN [status |-> "rates", res |-> RatesResult("value", lad.n), tr |-> lad.tr]
    ELSE IF res.kind = "raise" THEN [status |-> "raise", tr |-> t1]
    ELSE IF NonEmpty(res) THEN [status |-> "rates", res |-> res, tr |-> t1]
    ELSE GiveUp(stub, t1, "Gold (XAU) data not available")

\* Lines 596-610: the caller's range; 1000 bars by position when it returns None
\* and the timeframe is at least 60.
RangePath(request, stub, tr) ==
    LET start == FromIsoFormat(request.start_time[1])
        end == FromIsoFormat(request.end_time[1])
        res == FetchRange(stub)
        t1 == Append(tr, RangeCall(request.symbol, request.timeframe, start, end, res))
        res2 == FetchPos(stub, 1000)
        t2 == Append(t1, PosCall(request.symbol, request.timeframe, 1000, res2))
    IN
    IF ~IsIsoString(request.start_time[1]) \/ ~IsIsoString(request.end_time[1])
    THEN [status |-> "raise", tr |-> tr]    \* ValueError of fromisoformat
    ELSE IF res.kind = "raise" THEN [status |-> "raise", tr |-> t1]
    ELSE IF res.kind = "none" /\ request.timeframe >= 60
    THEN IF res2.kind = "raise" THEN [status |-> "raise", tr |-> t2]
         ELSE [status |-> "rates", res |-> res2, tr |-> t2]
    ELSE [status |-> "rates", res |-> res, tr |-> t1]

CountPathFromOne(request, stub, tr) ==
    LET res == FetchPos(stub, request.count[1])
        t1 == Append(tr, Call("copy_rates_from_pos",
                              <<request.symbol, request.timeframe, 1, request.count[1]>>,
                              res.kind, res.n))
    IN
    IF res.kind = "raise" THEN [status |-> "raise", tr |-> t1]
    ELSE [status |-> "rates", res |-> res, tr |-> t1]

\* Lines 611-613: the caller's count.
CountPath(request, stub, tr) ==
    LET res == FetchPos(stub, request.count[1])
        t1 == Append(tr, PosCall(request.symbol, request.timeframe, request.count[1], res))
    IN
    IF res.kind = "raise" THEN [status |-> "raise", tr |-> t1]
    ELSE [status |-> "rates", res |-> res, tr |-> t1]

\* Neither "mt5_timeframe >= mt5.TIMEFRAME_H1" nor "request.symbol.startswith('XAU')":
\* the request is served in the mode the caller gave.
UsesCallersMode(request, mt5_timeframe) ==
    mt5_timeframe < TIMEFRAME_H1 /\ ~StartsWithXAU(request.symbol)

\* Lines 596-615: the branches that follow the caller's mode.
CallersPath(request, stub, tr) ==
    IF TruthyStr(request.start_time) /\ TruthyStr(request.end_time)
    THEN RangePath(request, stub, tr)
    ELSE IF Truthy(request.count) THEN CountPath(request, stub, tr)
    ELSE [status |-> "return",
          resp |-> Failure("Must provide either count or start_time and end_time", <<>>),
          tr |-> tr]

\* Lines 617-640: what the handler makes of the rates it has.
HistoryResult(request, stub, fetch) ==
    IF fetch.status # "rates" THEN fetch
    ELSE IF fetch.res.kind = "none" THEN GiveUp(stub, fetch.tr, "MT5 data fetch failed")
    ELSE IF fetch.res.n = 0
    THEN [status |-> "return",
          resp |-> Failure("No historical data available",
                           <<request.symbol, request.timeframe>>),
          tr |-> fetch.tr]
    ELSE LET bars_data == BarsData(Rates(fetch.res.n)) IN
         [status |-> "return",
          resp |-> Success([symbol |-> request.symbol, timeframe |-> request.timeframe,
                            count |-> Len(bars_data), bars |-> bars_data]),
          tr |-> fetch.tr]

\* The behaviours of the rates functions of the connector during one request.
RatesStubs ==
    {[rng |-> "raise", rng_n |-> 0], [rng |-> "none", rng_n |-> 0],
     [rng |-> "value", rng_n |-> 0], [rng |-> "value", rng_n |-> 2],
     [rng |-> "value", rng_n |-> 50]}

PosStubs ==
    {[pos |-> "raise", pos_n |-> 0], [pos |-> "none", pos_n |-> 0],
     [pos |-> "fix", pos_n |-> 0], [pos |-> "fix", pos_n |-> 50],
     [pos |-> "max", pos_n |-> 3], [pos |-> "max", pos_n |-> 50]}

Stubs ==
    {a @@ b @@ [le |-> "value"] : a \in RatesStubs, b \in PosStubs}
    \cup {[rng |-> "none", rng_n |-> 0, pos |-> "none", pos_n |-> 0, le |-> "raise"]}

CanonicalStub == [rng |-> "none", rng_n |-> 0, pos |-> "none", pos_n |-> 0, le |-> "value"]

\* The behaviours that make a difference to the request: a rates function the
\* request never calls is given its first behaviour only.
StubsFor(request) ==
    IF ~UsesCallersMode(request, TimeframeMapping(request.timeframe)) THEN Stubs
    ELSE IF TruthyStr(request.start_time) /\ TruthyStr(request.end_time)
    THEN {s \in Stubs : request.timeframe >= 60 \/ s.pos = "none"}
    ELSE IF Truthy(request.count) THEN {s \in Stubs : s.rng = "none"}
    ELSE {CanonicalStub}

get_historical_data(request) ==
    LET r == [cmd |-> "historical_data"] @@ request
        exc(tr, s) == Done(r, Caught("Failed to get historical data"), tr, s)
        finish(out, s) == IF out.status = "raise" THEN exc(out.tr, s)
                          ELSE Done(r, out.resp, out.tr, s)
        mt5_timeframe == TimeframeMapping(request.timeframe)
        \* all_symbols = mt5.symbols_get(), then the "not found" answer
        notFound(tr, s, text) ==
            \E sg \in {"raise", "none", "value"} :
              LET t == Append(tr, Call("symbols_get", <<>>, sg, 0)) IN
              IF sg = "raise" THEN exc(t, s)
              ELSE Done(r, Failure(text, <<request.symbol>>), t, s)
    IN
    IF ~SessionCheck(request.session_id) THEN Done(r, InvalidSession, << >>, sessions)
    ELSE IF ~HasKey(request.session_id) THEN exc(<< >>, sessions)    \* KeyError of sessions[...]
    ELSE
    LET s1 == Touch(request.session_id) IN
    \E si \in {"raise", "none", "value"} :
      LET t1 == <<Call("symbol_info", <<request.symbol>>, si, 0)>> IN
      IF si = "raise" THEN exc(t1, s1)
      ELSE IF si = "none" THEN notFound(t1, s1, "Symbol not found in MT5")
      ELSE
      \E ss \in {"raise", "false", "true"} :
        LET t2 == Append(t1, Call("symbol_select", <<request.symbol>>, ss, 0)) IN
        IF ss = "raise" THEN exc(t2, s1)
        ELSE IF ss = "false"
        THEN Done(r, Failure("Failed to select symbol", <<request.symbol>>), t2, s1)
        ELSE
        \E ti \in {"raise", "none", "value"} :
          LET t3 == Append(t2, Call("terminal_info", <<>>, ti, 0))
              end == IF ti = "value" THEN ServerTimeAt(now) ELSE now
          IN
          IF ti = "raise" THEN exc(t3, s1)
          ELSE IF UsesCallersMode(request, mt5_timeframe)
          THEN \E stub \in StubsFor(request) :
                 finish(HistoryResult(request, stub, CallersPath(request, stub, t3)), s1)
          ELSE
          \E si2 \in {"raise", "none", "visible", "hidden"} :
            LET t4 == Append(t3, Call("symbol_info", <<request.symbol>>, si2, 0)) IN
            IF si2 = "raise" THEN exc(t4, s1)
            ELSE IF si2 = "none" THEN notFound(t4, s1, "Symbol not available")
            ELSE
            \E ss2 \in (IF si2 = "hidden" THEN {"raise", "value"} ELSE {"skip"}) :
              LET t5 == IF ss2 = "skip" THEN t4
                        ELSE Append(t4, Call("symbol_select", <<request.symbol>>, ss2, 0))
              IN
              IF ss2 = "raise" THEN exc(t5, s1)
              ELSE IF mt5_timeframe >= TIMEFRAME_H1
              THEN \E stub \in StubsFor(request) :
                     finish(HistoryResult(request, stub,
                                HigherPath(request, mt5_timeframe, end, stub, t5)), s1)
              ELSE \E stub \in StubsFor(request) :
                     finish(HistoryResult(request, stub, XauPath(request, stub, t5)), s1)

\* The fetch modes a caller may give: count, start_time, end_time.
ByCount(n) == [count |-> Some(n), start_time |-> None, end_time |-> None]

ByRange == [count |-> None, start_time |-> Some(IsoFormat(0)), end_time |-> Some(IsoFormat(5))]

NoMode == [count |-> None, start_time |-> None, end_time |-> None]

HistModes ==
    {NoMode, ByCount(0), ByCount(2), ByCount(50), ByRange,
     [count |-> Some(2), start_time |-> Some(IsoFormat(0)), end_time |-> None],
     [count |-> Some(2), start_time |-> Some(IsoFormat(0)), end_time |-> Some(IsoFormat(5))],
     [count |-> None, start_time |-> Some(<<"yesterday">>), end_time |-> Some(IsoFormat(5))]}

\* The symbols, timeframes and modes of the requests of the model: every mode for
\* EURUSD on M1, and the main modes on the paths that depend on symbol and timeframe.
HistTargets ==
    {[symbol |-> EURUSD, timeframe |-> 1] @@ m : m \in HistModes}
    \cup {[symbol |-> EURUSD, timeframe |-> 120] @@ ByRange,
          [symbol |-> EURUSD, timeframe |-> 1440] @@ NoMode}
    \cup {[symbol |-> sy, timeframe |-> 60] @@ m :
            sy \in {EURUSD, XAUUSD}, m \in {ByCount(50), ByRange}}
    \cup {[symbol |-> XAUUSD, timeframe |-> 1] @@ m : m \in {NoMode, ByCount(50), ByRange}}

HistRequests == {[session_id |-> sid] @@ t : sid \in SessionIds, t \in HistTargets}

HistoricalData ==
    /\ Idle
    /\ \E request \in HistRequests : get_historical_data(request)

---------------------------------------------------------------------------
(* POST /mt5/server_time *)

\* The name server_time is bound neither in get_server_time nor at module level
\* (it is a local of get_historical_data): evaluating it raises NameError.
ServerTimeIsBound == FALSE

get_server_time(request) ==
    LET r == [cmd |-> "server_time", session_id |-> request.session_id]
        exc(tr, s) == Done(r, Caught("Failed to get server time"), tr, s)
    IN
    IF ~SessionCheck(request.session_id) THEN Done(r, InvalidSession, << >>, sessions)
    ELSE IF ~HasKey(request.session_id) THEN exc(<< >>, sessions)    \* KeyError of sessions[...]
    ELSE
    LET s1 == Touch(request.session_id) IN
    \* "none": None; "noattr": an object without server_time
    \E ti \in {"raise", "none", "noattr", "value"} :
      LET t1 == <<Call("terminal_info", <<>>, ti, 0)>> IN
      IF ti = "raise" THEN exc(t1, s1)
      ELSE IF ti \in {"none", "noattr"}
      THEN Done(r, Failure("Failed to get server time", <<>>), t1, s1)
      ELSE
      \E ti2 \in {"raise", "none", "value"} :
        LET t2 == Append(t1, Call("terminal_info", <<>>, ti2, 0)) IN
        IF ti2 = "raise" THEN exc(t2, s1)
        ELSE IF ~ServerTimeIsBound THEN exc(t2, s1)    \* NameError, caught
        ELSE Done(r, Success([server_time |-> ServerTimeAt(now),
                              server_datetime |-> IsoFormat(ServerTimeAt(now)),
                              timezone |-> "UTC"]), t2, s1)

ServerTime == Idle /\ \E sid \in SessionIds : get_server_time([session_id |-> sid])

---------------------------------------------------------------------------
(* POST /mt5/symbols *)

\* The numbers of symbols symbols_get may list.
MaxSymbols == 2

\* {"name": s.name, ...} for the i-th symbol of the terminal.
SymbolEntry(i) == [name |-> IF i = 1 THEN EURUSD ELSE XAUUSD]

get_symbols(request) ==
    LET r == [cmd |-> "symbols", session_id |-> request.session_id]
        exc(tr, s) == Done(r, Caught("Failed to get symbols"), tr, s)
        \* symbols = mt5.symbols_get() and what follows
        list(tr, s) ==
            \E sg \in {"raise", "none", "value"}, n \in 0..MaxSymbols :
              (sg = "value" \/ n = 0) /\
              LET t == Append(tr, Call("symbols_get", <<>>, sg, n)) IN
              IF sg = "raise" THEN exc(t, s)
              ELSE IF sg = "none" THEN Done(r, Failure("Failed to get symbols", <<>>), t, s)
              ELSE Done(r, [success |-> TRUE,
                            symbols |-> [i \in 1..n |-> SymbolEntry(i)],
                            total |-> n], t, s)
    IN
    IF ~SessionCheck(request.session_id) THEN Done(r, InvalidSession, << >>, sessions)
    ELSE IF ~HasKey(request.session_id) THEN exc(<< >>, sessions)    \* KeyError of sessions[...]
    ELSE
    LET s1 == Touch(request.session_id) IN
    \E ti \in {"raise", "none", "disconnected", "connected"} :
      LET t1 == <<Call("terminal_info", <<>>, ti, 0)>> IN
      IF ti = "raise" THEN exc(t1, s1)
      ELSE IF ti = "connected" THEN list(t1, s1)
      ELSE
      \E o \in InitOutcomes :
        LET t2 == t1 \o InitTrace(o) IN
        IF o.kind = "raise" THEN exc(t2, s1)
        ELSE IF o.kind = "fail"
        THEN Done(r, Failure("MT5 connection lost and failed to reconnect", <<>>), t2, s1)
        ELSE list(t2, s1)

ListSymbols == Idle /\ \E sid \in SessionIds : get_symbols([session_id |-> sid])

---------------------------------------------------------------------------
(* GET /, GET /status, GET /mt5/sessions: no try/except around the handler. *)

\* The body of root() and of status().
HealthCheck(cmd) ==
    \E v \in {"raise", "none", "value"} :
      LET t1 == <<Call("version", <<>>, v, 0)>> IN
      IF v = "raise" THEN Done([cmd |-> cmd], Propagated, t1, sessions)
      ELSE Done([cmd |-> cmd],
                [service |-> "MT5 Bridge", status |-> "running",
                 mt5_version |-> v, active_sessions |-> Cardinality(DOMAIN sessions)],
                t1, sessions)

root == Idle /\ HealthCheck("root")

status == Idle /\ HealthCheck("status")

get_sessions ==
    /\ Idle
    /\ Done([cmd |-> "sessions"],
            [active_sessions |-> Cardinality(DOMAIN sessions), sessions |-> sessions],
            << >>, sessions)

---------------------------------------------------------------------------

\* The transport layer sends the response; the event loop is free for the next
\* request.  Handlers have no await: they are served one at a time.
Deliver ==
    /\ ~Idle
    /\ req' = [cmd |-> "none"]
    /\ resp' = [none |-> TRUE]
    /\ calls' = << >>
    /\ UNCHANGED <<sessions, now, mt5_account, issued>>
    /\ UNCHANGED ingestVars

Next ==
    \/ Tick
    \/ Deliver
    \/ Connect
    \/ AccountInfo
    \/ SymbolPrice
    \/ PlaceOrder
    \/ ClosePosition
    \/ HistoricalData
    \/ ServerTime
    \/ ListSymbols
    \/ root
    \/ status
    \/ get_sessions

Spec == Init /\ [][Next]_vars

---------------------------------------------------------------------------
(* Properties. *)

\* The commands whose handler starts with the session check.
SessionChecked ==
    {"account_info", "symbol_price", "place_order", "close_position",
     "historical_data", "server_time", "symbols"}

\* The commands of the gateway: the POST endpoints.
Commands == SessionChecked \cup {"connect"}

\* The response is a {success, error} failure envelope.
IsFailure(rsp) == "success" \in DOMAIN rsp /\ ~rsp.success /\ "error" \in DOMAIN rsp

\* C1: a session-checked command whose session_id is not a key of the registry is
\* answered {success: false, error: "Invalid session ID"}, calls no connector
\* function and leaves the registry as it was.
C1_UnknownSessionRejected ==
    [][(Idle /\ req'.cmd \in SessionChecked /\ req'.session_id \notin DOMAIN sessions)
          => (resp' = InvalidSession /\ calls' = << >> /\ sessions' = sessions)]_vars

\* A request with an unknown id has been rejected while a session is registered.
C1_Witness ==
    /\ req.cmd = "place_order"
    /\ req.session_id \notin DOMAIN sessions
    /\ DOMAIN sessions # {}
    /\ resp = InvalidSession

\* C2: the session id a successful connect returns contains the login it was given
\* and is a key of the registry; every id ever returned stays registered, and no
\* session-checked command that carries one is answered "Invalid session ID".
C2_IssuedSessionAccepted ==
    /\ (req.cmd = "connect" /\ resp.success)
          => /\ Contains(resp.session_id, IntToStr(req.login))
             /\ resp.session_id \in DOMAIN sessions
             /\ resp.session_id \in issued
    /\ issued \subseteq DOMAIN sessions
    /\ (req.cmd \in SessionChecked /\ req.session_id \in issued) => resp # InvalidSession

\* A command carrying an id returned earlier is served after time has passed
\* and another session has been created.
C2_Witness ==
    /\ req.cmd = "account_info"
    /\ req.session_id \in issued
    /\ resp.success
    /\ Cardinality(issued) = 2
    /\ sessions[req.session_id].connected_at # IsoFormat(now)

\* C3 as stated: every response of every command has data iff success and error
\* iff not success.
C3_EveryCommandDataXorError ==
    req.cmd \in Commands
        => /\ "success" \in DOMAIN resp
           /\ ("data" \in DOMAIN resp) <=> resp.success
           /\ ("error" \in DOMAIN resp) <=> ~resp.success

\* C3, amended: every command answers with a success flag and has error iff not
\* success; data is present iff success for every command but connect and symbols,
\* whose successful answers have no data field and carry session_id and
\* account_info (connect), symbols and total (symbols) instead.
C3_EnvelopeShapes ==
    req.cmd \in Commands
        => /\ "success" \in DOMAIN resp
           /\ ("error" \in DOMAIN resp) <=> ~resp.success
           /\ req.cmd \notin {"connect", "symbols"}
                 => (("data" \in DOMAIN resp) <=> resp.success)
           /\ (req.cmd = "connect" /\ resp.success)
                 => DOMAIN resp = {"success", "session_id", "account_info"}
           /\ (req.cmd = "symbols" /\ resp.success)
                 => DOMAIN resp = {"success", "symbols", "total"}

\* A symbol listing has succeeded: an answer without data.
C3_Witness == req.cmd = "symbols" /\ resp.success /\ resp.total > 0

\* C4 as stated: whichever endpoint is served, a connector call that raises ends
\* in a failure envelope and no exception leaves the handler.
C4_NoExceptionPropagates ==
    ~Idle => (resp # Propagated /\ (Raised(calls) => IsFailure(resp)))

\* C4, amended: for the POST commands (connect and the session-checked ones) a
\* connector call that raises ends in a failure envelope and nothing leaves the
\* handler; GET /mt5/sessions calls no connector function; GET / and GET /status
\* have no handler of their own and let an exception of mt5.version() through.
C4_CommandsCatchExceptions ==
    /\ req.cmd \in Commands => (resp # Propagated /\ (Raised(calls) => IsFailure(resp)))
    /\ req.cmd = "sessions" => (calls = << >> /\ resp # Propagated)
    /\ req.cmd \in {"root", "status"} => (Raised(calls) <=> resp = Propagated)

\* An order whose order_send raised has been answered with a failure envelope.
C4_Witness ==
    /\ req.cmd = "place_order"
    /\ Len(calls) = 4
    /\ calls[4].fn = "order_send"
    /\ calls[4].kind = "raise"
    /\ IsFailure(resp)

\* The calls to order_send and the quote fetched while serving the request.
OrderSends == CallsTo(calls, "order_send")

FetchedTick == CallsTo(calls, "symbol_info_tick")[1].ret

\* C5: the price of the request given to order_send is the caller's price whenever
\* the caller supplied one (0 included), and otherwise the ask of the tick fetched
\* in this request for type 0, its bid for type 1.
C5_CallerPriceOrQuote ==
    (req.cmd = "place_order" /\ OrderSends # << >>)
        => OrderSends[1].args[1].price =
              IF req.price # None THEN req.price[1]
              ELSE IF req.type = 0 THEN FetchedTick.ask ELSE FetchedTick.bid

\* order_send answered c with a requote / price-changed code.
IsRequote(c) ==
    c.kind = "value"
    /\ c.ret.retcode \in {TRADE_RETCODE_REQUOTE, TRADE_RETCODE_PRICE_CHANGED}

\* C6: when order_send answers with a requote code the order is resubmitted after
\* a fresh quote; if every order_send of the request requotes there are exactly
\* three of them, each resubmission follows a symbol_info_tick call, and the
\* request fails with an error that names the attempt count.
C6_RequoteRetriedThreeTimes ==
    (/\ req.cmd = "place_order"
     /\ OrderSends # << >>
     /\ \A i \in 1..Len(OrderSends) : IsRequote(OrderSends[i]))
        => /\ Len(OrderSends) = 3
           /\ \A i \in 2..Len(calls) :
                 (calls[i].fn = "order_send" /\ CallsTo(SubSeq(calls, 1, i - 1), "order_send") # << >>)
                    => calls[i - 1].fn = "symbol_info_tick"
           /\ IsFailure(resp)
           /\ resp.error.text = "Order failed after 3 attempts"

C8_UnknownTicketNotFound ==
    (/\ req.cmd = "close_position"
     /\ calls # << >>
     /\ calls[1].fn = "positions_get"
     /\ (calls[1].kind = "none" \/ (calls[1].kind = "value" /\ calls[1].ret = 0)))
        => /\ resp = Failure("Position not found", <<req.ticket>>)
           /\ CallsTo(calls, "symbol_info_tick") = << >>
           /\ OrderSends = << >>

\* positions_get has returned an empty tuple for the ticket of a registered session.
C8_Witness ==
    /\ req.cmd = "close_position"
    /\ req.session_id \in DOMAIN sessions
    /\ Len(calls) = 1
    /\ calls[1].kind = "value"
    /\ calls[1].ret = 0
    /\ resp = Failure("Position not found", <<req.ticket>>)

BarKeys == {"time", "open", "high", "low", "close", "tick_volume", "spread", "real_volume"}

\* The calls to copy_rates_range and copy_rates_from_pos made for the request.
RatesCalls ==
    SelectSeq(calls, LAMBDA c : c.fn \in {"copy_rates_range", "copy_rates_from_pos"})

\* C9: a successful historical_data response has data.count equal to the number of
\* rows of the fetch that succeeded (the last connector call), data.bars of that
\* length and not empty, and every bar with exactly the eight keys.
C9_CountIsRowsFetched ==
    (req.cmd = "historical_data" /\ resp.success)
        => LET last == calls[Len(calls)] IN
           /\ last.fn \in {"copy_rates_range", "copy_rates_from_pos"}
           /\ last.kind = "value"
           /\ resp.data.count = last.ret
           /\ resp.data.count > 0
           /\ Len(resp.data.bars) = resp.data.count
           /\ \A i \in 1..Len(resp.data.bars) : DOMAIN resp.data.bars[i] = BarKeys

\* A count=50 request has been answered with the 50 bars the connector returned.
C9_Witness ==
    /\ req.cmd = "historical_data"
    /\ req.count = Some(50)
    /\ resp.success
    /\ calls[Len(calls)].args = <<req.symbol, req.timeframe, 0, 50>>
    /\ calls[Len(calls)].ret = 50
    /\ resp.data.count = 50

\* The handler has passed symbol_info, symbol_select and terminal_info.
PreChecksPassed == Len(calls) >= 3 /\ calls[3].fn = "terminal_info" /\ calls[3].kind # "raise"

\* C10 as stated: whatever the symbol and the timeframe, a request giving a count
\* and no time range fetches exactly that many bars from offset 0, a request giving
\* start_time and end_time fetches that range, and a request giving neither is
\* rejected without a rates fetch.
C10_CallersModeAlways ==
    (req.cmd = "historical_data" /\ PreChecksPassed)
        => /\ (req.count # None /\ req.start_time = None /\ req.end_time = None)
                 => /\ Len(RatesCalls) = 1
                    /\ RatesCalls[1].fn = "copy_rates_from_pos"
                    /\ RatesCalls[1].args = <<req.symbol, req.timeframe, 0, req.count[1]>>
           /\ (/\ req.start_time # None /\ req.end_time # None
               /\ IsIsoString(req.start_time[1]) /\ IsIsoString(req.end_time[1]))
                 => /\ Len(RatesCalls) >= 1
                    /\ RatesCalls[1].fn = "copy_rates_range"
                    /\ RatesCalls[1].args = <<req.symbol, req.timeframe,
                                              FromIsoFormat(req.start_time[1]),
                                              FromIsoFormat(req.end_time[1])>>
           /\ (req.count = None /\ req.start_time = None /\ req.end_time = None)
                 => /\ RatesCalls = << >>
                    /\ resp = Failure("Must provide either count or start_time and end_time",
                                      <<>>)

\* C10, amended: the caller's mode is followed when the symbol does not start with
\* XAU and the MT5 timeframe is below TIMEFRAME_H1.  There a request with non-empty
\* start_time and end_time fetches exactly that range first (and 1000 bars from
\* offset 0 next, only when the range fetch returned None and timeframe >= 60);
\* otherwise a request with a non-zero count n fetches exactly n bars from offset 0
\* and nothing else; otherwise the request is rejected without a rates fetch.
C10_CallersModeWhereFollowed ==
    (/\ req.cmd = "historical_data"
     /\ PreChecksPassed
     /\ ~StartsWithXAU(req.symbol)
     /\ ~(req.timeframe \in {60, 240, 1440} \/ req.timeframe >= TIMEFRAME_H1))
        => LET byRange == TruthyStr(req.start_time) /\ TruthyStr(req.end_time)
               parsable == IsIsoString(req.start_time[1]) /\ IsIsoString(req.end_time[1])
               rc == RatesCalls
           IN
           /\ (byRange /\ parsable)
                 => /\ Len(rc) \in {1, 2}
                    /\ rc[1].fn = "copy_rates_range"
                    /\ rc[1].args = <<req.symbol, req.timeframe,
                                      FromIsoFormat(req.start_time[1]),
                                      FromIsoFormat(req.end_time[1])>>
                    /\ Len(rc) = 2 <=> (rc[1].kind = "none" /\ req.timeframe >= 60)
                    /\ Len(rc) = 2
                          => /\ rc[2].fn = "copy_rates_from_pos"
                             /\ rc[2].args = <<req.symbol, req.timeframe, 0, 1000>>
           /\ (byRange /\ ~parsable)
                 => (rc = << >> /\ resp = Caught("Failed to get historical data"))
           /\ (~byRange /\ Truthy(req.count))
                 => /\ Len(rc) = 1
                    /\ rc[1].fn = "copy_rates_from_pos"
                    /\ rc[1].args = <<req.symbol, req.timeframe, 0, req.count[1]>>
           /\ (~byRange /\ ~Truthy(req.count))
                 => /\ rc = << >>
                    /\ resp = Failure("Must provide either count or start_time and end_time",
                                      <<>>)

\* A count request on M1 has fetched exactly the bars asked for.
C10_Witness ==
    /\ req.cmd = "historical_data"
    /\ req.symbol = EURUSD
    /\ req.timeframe = 1
    /\ req.count = Some(2)
    /\ req.start_time = None
    /\ Len(RatesCalls) = 1
    /\ RatesCalls[1].args = <<EURUSD, 1, 0, 2>>
    /\ resp.success
    /\ resp.data.count = 2

\* C11: while the response to a session-checked request with a registered id is
\* outstanding, the session's last_activity is the time of that request, whatever
\* the connector did: the write precedes the first connector call, so it is in
\* place when that call raises, returns None, or reports a rejection.
C11_ActivityWrittenFirst ==
    (req.cmd \in SessionChecked /\ req.session_id \in DOMAIN sessions)
        => sessions[req.session_id].last_activity = IsoFormat(now)

\* The first connector call of a close_position raised, for a session created at
\* an earlier time, and the session's last_activity is the time of the request.
C11_Witness ==
    /\ req.cmd = "close_position"
    /\ req.session_id \in DOMAIN sessions
    /\ Len(calls) = 1
    /\ calls[1].kind = "raise"
    /\ resp = Caught("Failed to close position")
    /\ sessions[req.session_id].connected_at # IsoFormat(now)
    /\ sessions[req.session_id].last_activity = IsoFormat(now)

---------------------------------------------------------------------------
(* The registry under connects to either server of the broker: the handlers as *)
(* above, the credentials drawn from both servers.                             *)

AllServers == {"Exness-MT5Live", "Exness-MT5Trial"}

ConnectAnyServer ==
    /\ Idle
    /\ Cardinality(DOMAIN sessions) < MaxSessions
    /\ \E credentials \in [login : Logins, server : AllServers] : connect_to_mt5(credentials)

RegistryNext ==
    \/ Tick
    \/ Deliver
    \/ ConnectAnyServer
    \/ AccountInfo
    \/ SymbolPrice
    \/ get_sessions

RegistrySpec == Init /\ [][RegistryNext]_vars

\* C12: no step removes a registered session id, and a registered id keeps the
\* login, server and connected_at it was created with.
C12_RegistryOnlyGrows ==
    [][/\ DOMAIN sessions \subseteq DOMAIN sessions'
       /\ \A s \in DOMAIN sessions :
             /\ sessions'[s].login = sessions[s].login
             /\ sessions'[s].server = sessions[s].server
             /\ sessions'[s].connected_at = sessions[s].connected_at]_vars

\* C13: a successful Connect returns an id that was not registered before, and
\* the registry has one entry more after it.
C13_ConnectIdIsFresh ==
    [][(Idle /\ req'.cmd = "connect" /\ resp'.success)
          => /\ resp'.session_id \notin DOMAIN sessions
             /\ Cardinality(DOMAIN sessions') = Cardinality(DOMAIN sessions) + 1]_vars

\* C15: a handler serving a session-checked request with a registered id changes
\* nothing of the registry but that session's last_activity, which becomes the
\* time of this handler (so after any order of such handlers the last write
\* stands); handlers run one at a time, having no await.
C15_OnlyLastActivityRaces ==
    [][(Idle /\ req'.cmd \in SessionChecked /\ req'.session_id \in DOMAIN sessions)
          => /\ DOMAIN sessions' = DOMAIN sessions
             /\ \A s \in DOMAIN sessions :
                   sessions'[s] = IF s = req'.session_id
                                  THEN [sessions[s] EXCEPT !.last_activity = IsoFormat(now)]
                                  ELSE sessions[s]]_vars

\* A request has been served for one of two sessions, both created earlier: its
\* last_activity is the time of the request, the other session's is older.
C15_Witness ==
    /\ req.cmd \in SessionChecked
    /\ req.session_id \in DOMAIN sessions
    /\ sessions[req.session_id].last_activity = IsoFormat(now)
    /\ sessions[req.session_id].connected_at # IsoFormat(now)
    /\ \E s \in DOMAIN sessions :
          s # req.session_id /\ sessions[s].last_activity # IsoFormat(now)

InHigherPath ==
    /\ req.cmd = "historical_data"
    /\ PreChecksPassed
    /\ TimeframeMapping(req.timeframe) >= TIMEFRAME_H1
    /\ RatesCalls # << >>

InXauPath ==
    /\ req.cmd = "historical_data"
    /\ PreChecksPassed
    /\ TimeframeMapping(req.timeframe) < TIMEFRAME_H1
    /\ StartsWithXAU(req.symbol)
    /\ RatesCalls # << >>

\* The rate fetch c returned rows.
GotRows(c) == c.kind = "value" /\ c.ret > 0

\* The rate fetch c returned None or an empty array.
NullOrEmpty(c) == c.kind = "none" \/ (c.kind = "value" /\ c.ret = 0)

\* The order of the attempts: the range, then 10, 5, 3, 2, 1 bars from offset 0.
HigherOrder(rc) ==
    /\ Len(rc) <= 6
    /\ rc[1].fn = "copy_rates_range"
    /\ \A i \in 2..Len(rc) :
          /\ rc[i].fn = "copy_rates_from_pos"
          /\ rc[i].args[3] = 0
          /\ rc[i].args[4] = <<10, 5, 3, 2, 1>>[i - 1]

\* The order of the attempts: counts from offset 0, strictly decreasing, then at
\* most one range, which is the last attempt.
XauOrder(rc) ==
    /\ Len(rc) <= 6
    /\ \A i \in 1..Len(rc) : rc[i].fn = "copy_rates_range" => i = Len(rc) /\ i > 1
    /\ \A i \in 1..Len(rc), j \in 1..Len(rc) :
          (i < j /\ rc[j].fn = "copy_rates_from_pos") => rc[i].args[4] > rc[j].args[4]

\* Every attempt of the path has been made.
PathExhausted(rc) ==
    IF InHigherPath THEN Len(rc) = 6 ELSE rc[Len(rc)].fn = "copy_rates_range"

\* What C20 says of order, stopping and success.
FallbackOrderAndStop(rc) ==
    /\ IF InHigherPath THEN HigherOrder(rc) ELSE XauOrder(rc)
    /\ \A i \in 1..(Len(rc) - 1) : ~GotRows(rc[i])
    /\ GotRows(rc[Len(rc)])
          => /\ resp.success
             /\ resp.data.count = rc[Len(rc)].ret
             /\ calls[Len(calls)] = rc[Len(rc)]

\* C20 as stated: in both paths the attempts come in the order given, stop at the
\* first that returns rows, which are returned as success, are at most 6, and the
\* request fails only when every attempt of the path returned null or empty.
C20_FailsOnlyWhenExhausted ==
    (InHigherPath \/ InXauPath)
        => /\ FallbackOrderAndStop(RatesCalls)
           /\ ~resp.success
                 => /\ PathExhausted(RatesCalls)
                    /\ \A i \in 1..Len(RatesCalls) : NullOrEmpty(RatesCalls[i])

\* C20, amended: as stated, but the request also fails when a connector call of
\* the path raises: a rate fetch, or the last_error() read after a failed attempt.
\* Then the raising call is the last call and the attempts before it were all
\* null or empty.
C20_FailsWhenExhaustedOrRaised ==
    (InHigherPath \/ InXauPath)
        => /\ FallbackOrderAndStop(RatesCalls)
           /\ ~resp.success
                 => \/ /\ PathExhausted(RatesCalls)
                       /\ \A i \in 1..Len(RatesCalls) : NullOrEmpty(RatesCalls[i])
                       /\ ~Raised(calls)
                    \/ /\ calls[Len(calls)].kind = "raise"
                       /\ calls[Len(calls)].fn \in
                             {"copy_rates_range", "copy_rates_from_pos", "last_error"}
                       /\ resp = Caught("Failed to get historical data")
                       /\ \A i \in 1..Len(RatesCalls) :
                             NullOrEmpty(RatesCalls[i]) \/ RatesCalls[i].kind = "raise"

\* On H1 the range and the fetches of 10 and 5 bars gave nothing and the fetch of
\* 3 bars returned 3 rows, which are the answer.
C20_Witness ==
    /\ InHigherPath
    /\ Len(RatesCalls) = 4
    /\ RatesCalls[4].args = <<req.symbol, TIMEFRAME_H1, 0, 3>>
    /\ RatesCalls[4].ret = 3
    /\ resp.success
    /\ resp.data.count = 3

---------------------------------------------------------------------------
(* The calendar ingest script, src/scripts/ingest_economic_calendar.py.      *)
(* The lines of standard input arrive one at a time; stdin holds the lines   *)
(* read so far.  The datastore is the environment: an insert returns data,   *)
(* returns no data, or raises.                                               *)

\* The number of lines the input stream of the model may have.
MaxLines == 3

\* JSON values: null, a string, a number.
JNull == [null |-> TRUE]

JStr(s) == [str |-> s]

JNum(n) == [num |-> n]

IsStr(v) == "str" \in DOMAIN v

\* Python truthiness of a JSON value.
PyTruthy(v) ==
    CASE "null" \in DOMAIN v -> FALSE
      [] "str" \in DOMAIN v -> v.str # ""
      [] OTHER -> v.num # 0

\* d.get(key, default)
Get(d, key, default) == IF key \in DOMAIN d THEN d[key] ELSE default

\* a or b
Either(a, b) == IF PyTruthy(a) THEN a ELSE b

\* str(v) for the values of the model.
Str(v) ==
    CASE IsStr(v) -> v.str
      [] v = JNull -> "None"
      [] v = JNum(3) -> "3"
      [] OTHER -> "42"

\* s.upper() for the strings of the model.
Upper(s) ==
    CASE s = "high" -> "HIGH"
      [] s = "medium" -> "MEDIUM"
      [] s = "low" -> "LOW"
      [] OTHER -> s

\* The lines of the model, by the text they carry.
Blank == [kind |-> "blank", text |-> "   "]

Malformed == [kind |-> "malformed", text |-> "{name: CPI"]

Scalar == [kind |-> "json", text |-> "42"]

Object(event) == [kind |-> "json", text |-> "{...}", event |-> event]

\* The event objects of the model: one with the main keys, and one with the
\* alternative keys for every shape of impact.
ImpactShapes ==
    {JStr("medium"), JStr("CRITICAL"), JStr(""), JNull, JNum(3)}

Events ==
    {[event_name |-> JStr("NFP"), event_date |-> JStr("2024-01-05 13:30:00"),
      impact |-> JStr("HIGH"), affected_pairs |-> JStr("EUR/USD,GBP/USD")],
     [name |-> JStr("CPI"), date |-> JStr("2024-01-17")],
     [date |-> JStr("2024-01-17"), impact |-> JStr("HIGH")],
     [name |-> JStr("CPI"), time |-> JStr("tomorrow"), impact |-> JStr("HIGH")]}
    \cup {[name |-> JStr("CPI"), date |-> JStr("2024-01-17"), impact |-> i] : i \in ImpactShapes}

Lines == {Blank, Malformed, Scalar} \cup {Object(e) : e \in Events}

\* line.strip()
Strip(line) == IF line.kind = "blank" THEN "" ELSE line.text

\* json.loads(line): the value, or JSONDecodeError.
Loads(line) ==
    IF line.kind = "malformed" THEN [ok |-> FALSE]
    ELSE IF "event" \in DOMAIN line THEN [ok |-> TRUE, dict |-> TRUE, value |-> line.event]
    ELSE [ok |-> TRUE, dict |-> FALSE, value |-> JNum(42)]

\* parse_event_date: the first of the five formats that matches, as isoformat().
parse_event_date(date_str) ==
    CASE date_str = "2024-01-05 13:30:00" -> Some("2024-01-05T13:30:00+00:00")
      [] date_str = "2024-01-17" -> Some("2024-01-17T00:00:00+00:00")
      [] OTHER -> None

ImpactLevels == {"LOW", "MEDIUM", "HIGH"}

\* validate_impact: impact.upper() raises AttributeError for a truthy value that
\* is not a string.
validate_impact(impact) ==
    IF PyTruthy(impact) /\ ~IsStr(impact) THEN [raised |-> TRUE]
    ELSE LET up == IF PyTruthy(impact) THEN Upper(impact.str) ELSE "LOW" IN
         [raised |-> FALSE, value |-> IF up \notin ImpactLevels THEN "LOW" ELSE up]

\* parse_affected_pairs for the strings of the model.
parse_affected_pairs(pairs_str) ==
    IF ~PyTruthy(pairs_str) THEN << >> ELSE <<"EURUSD", "GBPUSD">>

\* process_event: the row, or None (also when its body raises).
process_event(loaded) ==
    IF ~loaded.dict THEN None    \* AttributeError of event_data.get, caught
    ELSE
    LET event_data == loaded.value
        event_name == Either(Get(event_data, "event_name", JNull), Get(event_data, "name", JNull))
        event_date == Either(Either(Get(event_data, "event_date", JNull),
                                    Get(event_data, "date", JNull)),
                             Get(event_data, "time", JNull))
        parsed_date == parse_event_date(Str(event_date))
        impact == validate_impact(Get(event_data, "impact", JStr("LOW")))
    IN
    IF ~PyTruthy(event_name) THEN None
    ELSE IF ~PyTruthy(event_date) THEN None
    ELSE IF parsed_date = None THEN None
    ELSE IF impact.raised THEN None
    ELSE Some([event_name |-> event_name.str,
               event_date |-> parsed_date[1],
               impact |-> impact.value,
               affected_pairs |->
                   parse_affected_pairs(Get(event_data, "affected_pairs", JStr("")))])

\* What one pass of the loop body adds to the counters, and whether the loop goes on.
Counted(processed, inserted, errors, goes_on) ==
    [processed |-> processed, inserted |-> inserted, errors |-> errors, goes_on |-> goes_on]

\* "except json.JSONDecodeError": error_count += 1
OnParseError == Counted(0, 0, 1, TRUE)

OnSkippedUncounted == Counted(1, 0, 0, TRUE)

\* "if not processed_event: error_count += 1; continue"
OnSkipped == Counted(1, 0, 1, TRUE)

\* "if result.data: inserted_count += 1"
OnInserted == Counted(1, 1, 0, TRUE)

\* "else: error_count += 1"
OnNoData == Counted(1, 0, 1, TRUE)

OnDatabaseErrorAborts == Counted(1, 0, 1, FALSE)

\* the inner "except Exception": error_count += 1
OnDatabaseError == Counted(1, 0, 1, TRUE)

ExitStatusAlwaysZero(inserted) == 0

\* "if inserted_count > 0: ... else: sys.exit(1)"
ExitStatus(inserted) == IF inserted > 0 THEN 0 ELSE 1

InsertOutcomes == {"data", "nodata", "raise"}

Environs == [configured : BOOLEAN, authenticated : BOOLEAN]

\* The script has been started.
IngestInit ==
    /\ BridgeInit
    /\ pc = "load"
    /\ environ \in Environs
    /\ stdin = << >>
    /\ line_num = 0
    /\ processed_count = 0
    /\ inserted_count = 0
    /\ error_count = 0
    /\ inserts = << >>
    /\ exit_code = None

\* Lines 17-26: the module exits unless both environment variables are set.
LoadModule ==
    /\ pc = "load"
    /\ IF ~environ.configured
       THEN pc' = "exited" /\ exit_code' = Some(1)
       ELSE pc' = "auth" /\ exit_code' = exit_code
    /\ UNCHANGED <<environ, stdin, line_num, processed_count, inserted_count, error_count,
                   inserts>>
    /\ UNCHANGED bridgeVars

\* Lines 119-130: get_user(), then the counters.
Authenticate ==
    /\ pc = "auth"
    /\ IF ~environ.authenticated
       THEN pc' = "exited" /\ exit_code' = Some(1)
       ELSE pc' = "loop" /\ exit_code' = exit_code
    /\ processed_count' = 0
    /\ inserted_count' = 0
    /\ error_count' = 0
    /\ UNCHANGED <<environ, stdin, line_num, inserts>>
    /\ UNCHANGED bridgeVars

\* The end of a pass of the loop.
LineDone(line, c, ins) ==
    /\ stdin' = Append(stdin, line)
    /\ line_num' = line_num + 1
    /\ processed_count' = processed_count + c.processed
    /\ inserted_count' = inserted_count + c.inserted
    /\ error_count' = error_count + c.errors
    /\ inserts' = ins
    /\ IF c.goes_on
       THEN pc' = "loop" /\ exit_code' = exit_code
       ELSE pc' = "exited" /\ exit_code' = Some(1)    \* an exception leaves the script
    /\ UNCHANGED environ
    /\ UNCHANGED bridgeVars

\* Lines 133-172: one pass of "for line_num, line in enumerate(sys.stdin, 1)".
ReadLine ==
    /\ pc = "loop"
    /\ line_num < MaxLines
    /\ \E line \in Lines :
         LET none == Counted(0, 0, 0, TRUE)
             loaded == Loads(line)
             processed_event == process_event(loaded)
         IN
         IF Strip(line) = "" THEN LineDone(line, none, inserts)
         ELSE IF ~loaded.ok THEN LineDone(line, OnParseError, inserts)
         ELSE IF processed_event = None THEN LineDone(line, OnSkipped, inserts)
         ELSE
         \E outcome \in InsertOutcomes :
           LET ins == Append(inserts, [row |-> processed_event[1] @@ [user_id |-> "user"],
                                       outcome |-> outcome,
                                       line |-> line_num + 1])
           IN
           LineDone(line,
                    CASE outcome = "data" -> OnInserted
                      [] outcome = "nodata" -> OnNoData
                      [] OTHER -> OnDatabaseError,
                    ins)

\* Lines 174-184: the input has ended; the summary and the exit status.
EndOfInput ==
    /\ pc = "loop"
    /\ pc' = "exited"
    /\ exit_code' = Some(ExitStatus(inserted_count))
    /\ UNCHANGED <<environ, stdin, line_num, processed_count, inserted_count, error_count,
                   inserts>>
    /\ UNCHANGED bridgeVars

IngestNext ==
    \/ LoadModule
    \/ Authenticate
    \/ ReadLine
    \/ EndOfInput

IngestSpec == IngestInit /\ [][IngestNext]_vars

\* The lines read so far that are not blank, and those of them that parse as JSON.
NonBlankLines == {i \in 1..Len(stdin) : Strip(stdin[i]) # ""}

ParsedLines == {i \in NonBlankLines : Loads(stdin[i]).ok}

\* The number of rows the datastore accepted.
RowsInserted == Cardinality({k \in 1..Len(inserts) : inserts[k].outcome = "data"})

\* C16: throughout the loop and at the end of ingest_events, processed is the
\* number of non-blank lines that parse as JSON, errors is at least the number of
\* non-blank lines that do not parse, inserted + errors is the number of non-blank
\* lines, and inserted <= processed.
C16_IngestCounters ==
    /\ processed_count = Cardinality(ParsedLines)
    /\ error_count >= Cardinality(NonBlankLines \ ParsedLines)
    /\ inserted_count + error_count = Cardinality(NonBlankLines)
    /\ inserted_count <= processed_count
    /\ inserted_count = RowsInserted

\* The run has ended after a malformed line, a skipped event and an insert.
C16_Witness ==
    /\ pc = "exited"
    /\ Len(stdin) = 3
    /\ stdin[1] = Malformed
    /\ processed_count = 2
    /\ inserted_count = 1
    /\ error_count = 2

\* C17: the run ends with status 0 exactly when at least one row was inserted and
\* with status 1 otherwise; without configuration or authentication it ends with
\* status 1 having read no line and attempted no insert.
C17_ExitStatus ==
    /\ pc # "exited" => exit_code = None
    /\ pc = "exited"
          => /\ exit_code \in {Some(0), Some(1)}
             /\ exit_code = Some(0) <=> RowsInserted > 0
             /\ (~environ.configured \/ ~environ.authenticated)
                   => (exit_code = Some(1) /\ stdin = << >> /\ inserts = << >>)

\* The run has ended with status 0 after one insert among failed lines.
C17_Witness ==
    /\ pc = "exited"
    /\ exit_code = Some(0)
    /\ RowsInserted = 1
    /\ Len(inserts) = 3
    /\ inserts[3].outcome = "data"

\* The event of a line has a name, a date that parses, and an impact that is
\* absent, falsy or a string.
ValidLine(line) ==
    /\ "event" \in DOMAIN line
    /\ LET e == line.event
           name == Either(Get(e, "event_name", JNull), Get(e, "name", JNull))
           date == Either(Either(Get(e, "event_date", JNull), Get(e, "date", JNull)),
                          Get(e, "time", JNull))
       IN
       /\ PyTruthy(name)
       /\ PyTruthy(date)
       /\ parse_event_date(Str(date)) # None
       /\ "impact" \in DOMAIN e => (~PyTruthy(e.impact) \/ IsStr(e.impact))

HasNameAndDate(line) ==
    /\ "event" \in DOMAIN line
    /\ LET e == line.event
           name == Either(Get(e, "event_name", JNull), Get(e, "name", JNull))
           date == Either(Either(Get(e, "event_date", JNull), Get(e, "date", JNull)),
                          Get(e, "time", JNull))
       IN PyTruthy(name) /\ PyTruthy(date) /\ parse_event_date(Str(date)) # None

\* The impact of the event is one of the three levels, in any case of letters.
StandardImpact(e) ==
    "impact" \in DOMAIN e /\ IsStr(e.impact) /\ Upper(e.impact.str) \in ImpactLevels

\* C19: every row handed to the datastore has impact LOW, MEDIUM or HIGH, and
\* every line read whose event has a name and a parsable date has been handed to
\* the datastore, with impact LOW unless its impact is one of the three levels.
C19_ImpactNeverDropsEvent ==
    /\ \A k \in 1..Len(inserts) : inserts[k].row.impact \in ImpactLevels
    /\ \A i \in 1..Len(stdin) :
          HasNameAndDate(stdin[i])
             => \E k \in 1..Len(inserts) :
                   /\ inserts[k].line = i
                   /\ ~StandardImpact(stdin[i].event) => inserts[k].row.impact = "LOW"

\* In the connect served with the calls tr, initialize, login and account_info
\* all succeeded and no connector call raised.
ConnectStepsSucceeded(tr) ==
    /\ ~Raised(tr)
    /\ \E i \in 1..Len(tr) : tr[i].fn = "initialize" /\ tr[i].kind = "ok"
    /\ \E i \in 1..Len(tr) : tr[i].fn = "login" /\ tr[i].kind = "true"
    /\ \E i \in 1..Len(tr) : tr[i].fn = "account_info" /\ tr[i].kind = "value"

\* C21: a Connect in which initialize, login and account_info all succeed answers
\* success and its id is registered; any other Connect answers a failure envelope
\* and leaves the registry as it was; and the set of registered ids changes only
\* in a Connect of the first kind.
C21_SessionsOnlyBySuccessfulConnect ==
    [][/\ (Idle /\ req'.cmd = "connect")
             => IF ConnectStepsSucceeded(calls')
                THEN resp'.success /\ resp'.session_id \in DOMAIN sessions'
                ELSE IsFailure(resp') /\ sessions' = sessions
       /\ DOMAIN sessions' # DOMAIN sessions
             => (Idle /\ req'.cmd = "connect" /\ ConnectStepsSucceeded(calls'))]_vars

\* A Connect whose login was refused has failed while one session, created by an
\* earlier Connect, is registered.
C21_Witness ==
    /\ req.cmd = "connect"
    /\ Len(CallsTo(calls, "login")) = 1
    /\ CallsTo(calls, "login")[1].kind = "false"
    /\ IsFailure(resp)
    /\ resp.error.text = "Login failed"
    /\ Cardinality(DOMAIN sessions) = 1
    /\ issued = DOMAIN sessions

\* C22: a successful AccountInfo answers with the account whose login is recorded
\* in the registry entry of the session id it carries.
C22_SessionBoundToAccount ==
    (req.cmd = "account_info" /\ resp.success)
        => resp.data.login = sessions[req.session_id].login

\* C23: with a registered session id, when terminal_info() returns an object with
\* server_time and no connector call raises, server_time answers success with
\* server_time, server_datetime and timezone; it fails only when terminal_info()
\* is None or has no server_time.
C23_ServerTimeReturned ==
    (/\ req.cmd = "server_time"
     /\ req.session_id \in DOMAIN sessions
     /\ ~Raised(calls))
        => /\ calls # << >>
           /\ calls[1].fn = "terminal_info"
           /\ calls[1].kind = "value"
                 => /\ resp.success
                    /\ DOMAIN resp.data = {"server_time", "server_datetime", "timezone"}
                    /\ resp.data.server_time = ServerTimeAt(now)
           /\ ~resp.success => calls[1].kind \in {"none", "noattr"}

====
